---------------------------- MODULE Spec2Model ----------------------------
(***************************************************************************)
(* A model of `def` (crate ddir/def): the Describer library (src/lib.rs),  *)
(* the command line parser (src/command.rs) and the binary's main          *)
(* (src/main.rs, src/errors.rs).                                           *)
(*                                                                         *)
(* A Rust String is modelled as a sequence of one-character strings, so    *)
(* that splitting, placeholder replacement, JSON escaping and JSON parsing *)
(* are computed character by character.  A HashMap<String, String> is a    *)
(* function whose DOMAIN is its key set.  An Option<T> is <<>> (None) or   *)
(* <<v>> (Some(v)).                                                        *)
(***************************************************************************)
EXTENDS Integers, Sequences, FiniteSets, TLC

VARIABLES
    describer,  \* the Describer in memory: [descriptions, patterns]
    call,       \* the last library call: [op, arg, ret]
    args,       \* the argument list of the last invocation (env::args)
    parsed,     \* what command.rs made of args
    file,       \* the configuration file on disk: [exists, text]
    exit        \* the binary's process: [status, code, msg]

vars == <<describer, call, args, parsed, file, exit>>

-----------------------------------------------------------------------------
(* Bounds of the model. *)

\* New keys are added only while the two maps hold fewer entries than this.
MaxEntries == 2

\* The longest argument list given to the parser.
MaxArgs == 5

-----------------------------------------------------------------------------
(* Options and strings. *)

None == <<>>
Some(v) == <<v>>

Max(S) == CHOOSE x \in S : \A y \in S : y <= x

RECURSIVE Concat(_)
\* The concatenation of a sequence of strings.
Concat(ss) == IF ss = <<>> THEN <<>> ELSE Head(ss) \o Concat(Tail(ss))

\* The sequences that list every element of S exactly once: the orders in
\* which a HashMap may hand out its keys.
Orders(S) ==
    {o \in [1..Cardinality(S) -> S] : \A x \in S : \E i \in DOMAIN o : o[i] = x}

-----------------------------------------------------------------------------
(* src/lib.rs: the Describer. *)

SEPERATOR == "/"
DIRECTORY_PLACEHOLDER == "*"

\* A split that gives a path without separator an empty parent.
rsplitn2_empty_parent(s, c) ==
    LET I == {i \in 1..Len(s) : s[i] = c}
    IN  IF I = {} THEN <<s, <<>>>>
        ELSE <<SubSeq(s, Max(I) + 1, Len(s)), SubSeq(s, 1, Max(I) - 1)>>

\* str::rsplitn(2, c) collected: at most two pieces, the last one first.
rsplitn2(s, c) ==
    LET I == {i \in 1..Len(s) : s[i] = c}
    IN  IF I = {} THEN <<s>>
        ELSE <<SubSeq(s, Max(I) + 1, Len(s)), SubSeq(s, 1, Max(I) - 1)>>

RECURSIVE replace_from(_, _, _, _)
\* str::replace's loop from position i: copy up to the next match, push
\* the replacement, go on after the match.
replace_from(s, from, to, i) ==
    IF i > Len(s) THEN <<>>
    ELSE IF s[i] = from THEN to \o replace_from(s, from, to, i + 1)
    ELSE <<s[i]>> \o replace_from(s, from, to, i + 1)

RECURSIVE replace_first_from(_, _, _, _)
replace_first_from(s, from, to, i) ==
    IF i > Len(s) THEN <<>>
    ELSE IF s[i] = from THEN to \o SubSeq(s, i + 1, Len(s))
    ELSE <<s[i]>> \o replace_first_from(s, from, to, i + 1)

\* A replace that stops after the first match (str::replacen(.., 1)).
replace_first(s, from, to) == replace_first_from(s, from, to, 1)

replace(s, from, to) == replace_from(s, from, to, 1)

\* HashMap::get
get(m, k) == IF k \in DOMAIN m THEN Some(m[k]) ELSE None

\* An insert that keeps no other entry.
insert_alone(m, k, v) == [x \in {k} |-> v]

\* HashMap::insert
insert(m, k, v) == [x \in DOMAIN m \cup {k} |-> IF x = k THEN v ELSE m[x]]

EmptyMap == [x \in {} |-> <<>>]

new == [descriptions |-> EmptyMap, patterns |-> EmptyMap]

new_with(d, p) == [descriptions |-> d, patterns |-> p]

\* A lookup that consults the whole path, not its parent.
describe_using_pattern_self(d, directory) ==
    LET p == get(d.patterns, directory)
    IN  IF p = None THEN None
        ELSE Some(replace(p[1], DIRECTORY_PLACEHOLDER, directory))

describe_using_pattern(d, directory) ==
    LET v == rsplitn2(directory, SEPERATOR)
    IN  IF Len(v) # 2 THEN None
        ELSE LET p == get(d.patterns, v[2])
             IN  IF p = None THEN None
                 ELSE Some(replace(p[1], DIRECTORY_PLACEHOLDER, v[1]))

\* A describe that consults the patterns first.
describe_pattern_first(d, directory) ==
    LET r == describe_using_pattern(d, directory)
    IN  IF r # None THEN r ELSE get(d.descriptions, directory)

describe(d, directory) ==
    LET r == get(d.descriptions, directory)
    IN  IF r # None THEN r ELSE describe_using_pattern(d, directory)

\* An add that writes the other map.
add_description_swapped(d, path, desc) ==
    [d EXCEPT !.patterns = insert(d.patterns, path, desc)]

add_description(d, path, desc) ==
    [d EXCEPT !.descriptions = insert(d.descriptions, path, desc)]

add_pattern(d, path, desc) ==
    [d EXCEPT !.patterns = insert(d.patterns, path, desc)]

-----------------------------------------------------------------------------
(* serde_json as lib.rs uses it: #[derive(Deserialize, Serialize)] on      *)
(* Describer, serde_json::to_string(_pretty) and serde_json::from_str.     *)
(* JSON text is a sequence of characters.                                  *)

QUOTE == "\""
BACKSLASH == "\\"
NEWLINE == "\n"

DESCRIPTIONS == <<"d", "e", "s", "c", "r", "i", "p", "t", "i", "o", "n", "s">>
PATTERNS == <<"p", "a", "t", "t", "e", "r", "n", "s">>

\* An escaping that forgets the quote.
escape_char_raw_quote(c) ==
    IF c = BACKSLASH THEN <<BACKSLASH, BACKSLASH>>
    ELSE IF c = NEWLINE THEN <<BACKSLASH, "n">>
    ELSE <<c>>

\* serde_json's ESCAPE table on the characters of the model.
escape_char(c) ==
    IF c = QUOTE THEN <<BACKSLASH, QUOTE>>
    ELSE IF c = BACKSLASH THEN <<BACKSLASH, BACKSLASH>>
    ELSE IF c = NEWLINE THEN <<BACKSLASH, "n">>
    ELSE IF c = "\t" THEN <<BACKSLASH, "t">>
    ELSE IF c = "\r" THEN <<BACKSLASH, "r">>
    ELSE <<c>>

format_escaped_str(s) ==
    <<QUOTE>> \o Concat([i \in 1..Len(s) |-> escape_char(s[i])]) \o <<QUOTE>>

\* PrettyFormatter's indent: two spaces a level.
indent(n) == [i \in 1..(2 * n) |-> " "]

\* A HashMap<String, String> as a JSON object, its entries in the order
\* the map's iterator hands them out; level is the nesting depth.
serialize_map(m, order, pretty, level) ==
    IF ~pretty
    THEN <<"{">>
         \o Concat([i \in 1..Len(order) |->
                (IF i = 1 THEN <<>> ELSE <<",">>)
                \o format_escaped_str(order[i]) \o <<":">>
                \o format_escaped_str(m[order[i]])])
         \o <<"}">>
    ELSE IF Len(order) = 0 THEN <<"{", "}">>
    ELSE <<"{">>
         \o Concat([i \in 1..Len(order) |->
                (IF i = 1 THEN <<NEWLINE>> ELSE <<",", NEWLINE>>)
                \o indent(level + 1)
                \o format_escaped_str(order[i]) \o <<":", " ">>
                \o format_escaped_str(m[order[i]])])
         \o <<NEWLINE>> \o indent(level) \o <<"}">>

\* The derived Serialize: the struct as an object of its two fields, in
\* declaration order.  od and op are the iteration orders of the two maps.
to_json(d, pretty, od, op) ==
    IF ~pretty
    THEN <<"{">> \o format_escaped_str(DESCRIPTIONS) \o <<":">>
         \o serialize_map(d.descriptions, od, FALSE, 1)
         \o <<",">> \o format_escaped_str(PATTERNS) \o <<":">>
         \o serialize_map(d.patterns, op, FALSE, 1)
         \o <<"}">>
    ELSE <<"{", NEWLINE>> \o indent(1)
         \o format_escaped_str(DESCRIPTIONS) \o <<":", " ">>
         \o serialize_map(d.descriptions, od, TRUE, 1)
         \o <<",", NEWLINE>> \o indent(1)
         \o format_escaped_str(PATTERNS) \o <<":", " ">>
         \o serialize_map(d.patterns, op, TRUE, 1)
         \o <<NEWLINE, "}">>

-----------------------------------------------------------------------------
(* serde_json::from_str::<Describer>: a result is [ok, val, pos, err], pos *)
(* the position after what was read.                                       *)

Ok(v, p) == [ok |-> TRUE, val |-> v, pos |-> p, err |-> ""]
Fail(e) == [ok |-> FALSE, val |-> <<>>, pos |-> 0, err |-> e]

EOF == ""

peek(s, i) == IF i <= Len(s) THEN s[i] ELSE EOF

RECURSIVE parse_whitespace(_, _)
\* The position of the first character at or after i that is no whitespace.
parse_whitespace(s, i) ==
    IF i <= Len(s) /\ s[i] \in {" ", NEWLINE, "\t", "\r"}
    THEN parse_whitespace(s, i + 1)
    ELSE i

\* What a backslash followed by c stands for; <<>> when c starts no escape
\* (\u needs hex digits, which the model's documents do not hold).
parse_escape(c) ==
    IF c \in {QUOTE, BACKSLASH, "/"} THEN <<c>>
    ELSE IF c = "n" THEN <<NEWLINE>>
    ELSE IF c = "t" THEN <<"\t">>
    ELSE IF c = "r" THEN <<"\r">>
    ELSE <<>>

RECURSIVE parse_str(_, _, _)
\* The string whose opening quote was just read, from position i on.
parse_str(s, i, acc) ==
    IF i > Len(s) THEN Fail("EOF while parsing a string")
    ELSE IF s[i] = QUOTE THEN Ok(acc, i + 1)
    ELSE IF s[i] = BACKSLASH
    THEN IF i + 1 > Len(s) THEN Fail("EOF while parsing a string")
         ELSE IF parse_escape(s[i + 1]) = <<>> THEN Fail("invalid escape")
         ELSE parse_str(s, i + 2, acc \o parse_escape(s[i + 1]))
    ELSE IF s[i] \in {NEWLINE, "\t", "\r"}
    THEN Fail("control character while parsing a string")
    ELSE parse_str(s, i + 1, Append(acc, s[i]))

\* String::deserialize, at the position j of the value's first character.
deserialize_string_at(s, j) ==
    IF peek(s, j) = EOF THEN Fail("EOF while parsing a value")
    ELSE IF peek(s, j) = QUOTE THEN parse_str(s, j + 1, <<>>)
    ELSE Fail("invalid type")

deserialize_string(s, i) == deserialize_string_at(s, parse_whitespace(s, i))

\* parse_object_colon after the key: Some(key) and the position after the
\* colon.
parse_object_colon_at(s, key, j) ==
    IF peek(s, j) = ":" THEN Ok(Some(key.val), j + 1)
    ELSE IF peek(s, j) = EOF THEN Fail("EOF while parsing an object")
    ELSE Fail("expected :")

parse_object_colon(s, key) ==
    IF ~key.ok THEN key
    ELSE parse_object_colon_at(s, key, parse_whitespace(s, key.pos))

\* A key is a string: no other JSON value may stand in its place.
parse_key(s, j) ==
    IF peek(s, j) = QUOTE THEN parse_object_colon(s, parse_str(s, j + 1, <<>>))
    ELSE IF peek(s, j) = EOF THEN Fail("EOF while parsing an object")
    ELSE IF peek(s, j) = "}" THEN Fail("trailing comma")
    ELSE Fail("key must be a string")

next_key_at(s, j, first) ==
    IF peek(s, j) = "}" THEN Ok(None, j + 1)
    ELSE IF first THEN parse_key(s, j)
    ELSE IF peek(s, j) = "," THEN parse_key(s, parse_whitespace(s, j + 1))
    ELSE IF peek(s, j) = EOF THEN Fail("EOF while parsing an object")
    ELSE Fail("expected , or }")

\* MapAccess::next_key_seed and the colon that next_value_seed reads:
\* Ok(None, ..) at the closing brace, which is read too, Ok(Some(key), ..)
\* with the position of the value otherwise.
next_key(s, i, first) == next_key_at(s, parse_whitespace(s, i), first)

RECURSIVE visit_hashmap(_, _, _, _)

\* HashMap::insert of a read entry: a key met again replaces the earlier
\* value.
visit_hashmap_insert(s, acc, key, v) ==
    IF ~v.ok THEN v
    ELSE visit_hashmap(s, v.pos, FALSE, insert(acc, key, v.val))

visit_hashmap_entry(s, acc, k) ==
    IF ~k.ok THEN k
    ELSE IF k.val = None THEN Ok(acc, k.pos)
    ELSE visit_hashmap_insert(s, acc, k.val[1], deserialize_string(s, k.pos))

\* The entries of a HashMap<String, String> after its opening brace.
visit_hashmap(s, i, first, acc) ==
    visit_hashmap_entry(s, acc, next_key(s, i, first))

deserialize_hashmap_at(s, j) ==
    IF peek(s, j) = EOF THEN Fail("EOF while parsing a value")
    ELSE IF peek(s, j) = "{" THEN visit_hashmap(s, j + 1, TRUE, EmptyMap)
    ELSE Fail("invalid type")

\* HashMap::deserialize: a JSON object, nothing else.
deserialize_hashmap(s, i) == deserialize_hashmap_at(s, parse_whitespace(s, i))

\* parse_ident: the literal word w at position i.
parse_ident(s, i, w) ==
    IF i + Len(w) - 1 <= Len(s) /\ SubSeq(s, i, i + Len(w) - 1) = w
    THEN Ok(<<>>, i + Len(w))
    ELSE Fail("expected ident")

RECURSIVE ignore_value(_, _)
RECURSIVE ignore_object(_, _, _)
RECURSIVE ignore_array(_, _, _)

ignore_object_next(s, v) ==
    IF ~v.ok THEN v ELSE ignore_object(s, v.pos, FALSE)

ignore_object_entry(s, k) ==
    IF ~k.ok THEN k
    ELSE IF k.val = None THEN Ok(<<>>, k.pos)
    ELSE ignore_object_next(s, ignore_value(s, k.pos))

ignore_object(s, i, first) == ignore_object_entry(s, next_key(s, i, first))

ignore_array_next(s, v) ==
    IF ~v.ok THEN v ELSE ignore_array(s, v.pos, FALSE)

ignore_array_element(s, k) ==
    IF peek(s, k) = "]" THEN Fail("trailing comma")
    ELSE ignore_array_next(s, ignore_value(s, k))

ignore_array_at(s, j, first) ==
    IF peek(s, j) = "]" THEN Ok(<<>>, j + 1)
    ELSE IF first THEN ignore_array_next(s, ignore_value(s, j))
    ELSE IF peek(s, j) = "," THEN ignore_array_element(s, parse_whitespace(s, j + 1))
    ELSE Fail("expected , or ]")

ignore_array(s, i, first) == ignore_array_at(s, parse_whitespace(s, i), first)

ignore_value_at(s, j) ==
    IF peek(s, j) = EOF THEN Fail("EOF while parsing a value")
    ELSE IF peek(s, j) = QUOTE THEN parse_str(s, j + 1, <<>>)
    ELSE IF peek(s, j) = "{" THEN ignore_object(s, j + 1, TRUE)
    ELSE IF peek(s, j) = "[" THEN ignore_array(s, j + 1, TRUE)
    ELSE IF peek(s, j) = "n" THEN parse_ident(s, j, <<"n", "u", "l", "l">>)
    ELSE IF peek(s, j) = "t" THEN parse_ident(s, j, <<"t", "r", "u", "e">>)
    ELSE IF peek(s, j) = "f" THEN parse_ident(s, j, <<"f", "a", "l", "s", "e">>)
    ELSE Fail("expected value")

\* IgnoredAny: any JSON value is read and dropped (numbers are not among
\* the characters of the model's documents).
ignore_value(s, i) == ignore_value_at(s, parse_whitespace(s, i))

RECURSIVE visit_map(_, _, _, _, _)

visit_map_descriptions(s, f1, m) ==
    IF ~m.ok THEN m ELSE visit_map(s, m.pos, FALSE, Some(m.val), f1)

visit_map_patterns(s, f0, m) ==
    IF ~m.ok THEN m ELSE visit_map(s, m.pos, FALSE, f0, Some(m.val))

visit_map_ignored(s, f0, f1, v) ==
    IF ~v.ok THEN v ELSE visit_map(s, v.pos, FALSE, f0, f1)

visit_map_entry(s, f0, f1, k) ==
    IF ~k.ok THEN k
    ELSE IF k.val = None
    THEN IF f0 = None THEN Fail("missing field descriptions")
         ELSE IF f1 = None THEN Fail("missing field patterns")
         ELSE Ok(new_with(f0[1], f1[1]), k.pos)
    ELSE IF k.val[1] = DESCRIPTIONS
    THEN IF f0 # None THEN Fail("duplicate field descriptions")
         ELSE visit_map_descriptions(s, f1, deserialize_hashmap(s, k.pos))
    ELSE IF k.val[1] = PATTERNS
    THEN IF f1 # None THEN Fail("duplicate field patterns")
         ELSE visit_map_patterns(s, f0, deserialize_hashmap(s, k.pos))
    ELSE visit_map_ignored(s, f0, f1, ignore_value(s, k.pos))

\* The derived Visitor::visit_map after the opening brace: f0 and f1 are
\* the fields read so far (Options).  A field met twice is an error, a
\* key that names no field is read and ignored, and a field still missing
\* at the closing brace is an error (neither field has a default).
visit_map(s, i, first, f0, f1) ==
    visit_map_entry(s, f0, f1, next_key(s, i, first))

\* end_seq: only the closing bracket may follow the second element.
visit_seq_end(s, e0, e1, j) ==
    IF peek(s, j) = "]" THEN Ok(new_with(e0.val, e1.val), j + 1)
    ELSE IF peek(s, j) = EOF THEN Fail("EOF while parsing a list")
    ELSE Fail("trailing characters")

visit_seq_second(s, e0, e1) ==
    IF ~e1.ok THEN e1 ELSE visit_seq_end(s, e0, e1, parse_whitespace(s, e1.pos))

visit_seq_comma(s, e0, k) ==
    IF peek(s, k) = "]" THEN Fail("trailing comma")
    ELSE visit_seq_second(s, e0, deserialize_hashmap_at(s, k))

visit_seq_sep(s, e0, j) ==
    IF peek(s, j) = EOF THEN Fail("EOF while parsing a list")
    ELSE IF peek(s, j) = "]" THEN Fail("invalid length 1")
    ELSE IF peek(s, j) # "," THEN Fail("expected , or ]")
    ELSE visit_seq_comma(s, e0, parse_whitespace(s, j + 1))

visit_seq_first(s, e0) ==
    IF ~e0.ok THEN e0 ELSE visit_seq_sep(s, e0, parse_whitespace(s, e0.pos))

visit_seq_at(s, j) ==
    IF peek(s, j) = EOF THEN Fail("EOF while parsing a list")
    ELSE IF peek(s, j) = "]" THEN Fail("invalid length 0")
    ELSE visit_seq_first(s, deserialize_hashmap_at(s, j))

\* The derived Visitor::visit_seq after the opening bracket: the two
\* fields as the two elements of an array, in declaration order.
visit_seq(s, i) == visit_seq_at(s, parse_whitespace(s, i))

\* Deserializer::deserialize_struct at the position j of the value's first
\* character: an array goes to visit_seq, an object to visit_map, anything
\* else is an invalid type.
deserialize_struct(s, j) ==
    IF peek(s, j) = EOF THEN Fail("EOF while parsing a value")
    ELSE IF peek(s, j) = "[" THEN visit_seq(s, j + 1)
    ELSE IF peek(s, j) = "{" THEN visit_map(s, j + 1, TRUE, None, None)
    ELSE Fail("invalid type")

\* Deserializer::end: whitespace only up to the end of the input.
end(s, r) ==
    IF ~r.ok THEN r
    ELSE IF parse_whitespace(s, r.pos) <= Len(s) THEN Fail("trailing characters")
    ELSE r

\* serde_json::from_str
from_str(s) == end(s, deserialize_struct(s, parse_whitespace(s, 1)))

new_from_json(json) == from_str(json)

-----------------------------------------------------------------------------
(* The inputs of the model. *)

\* The paths the add operations are given: "", "a", "a/b" and "a/".
\* "a" holds no separator, "a/b" and "a/" are children of "a".
AddPaths == {<<>>, <<"a">>, <<"a", "/", "b">>, <<"a", "/">>}

\* The descriptions and templates: "*a*" (two placeholders), "b" (none)
\* and one of a backslash, a quote, a line feed and a placeholder.
Texts == {<<"*", "a", "*">>, <<"b">>, <<BACKSLASH, QUOTE, NEWLINE, "*">>}

\* Names of children: "", "b", "*" and one of a quote and a backslash.
Leaves == {<<>>, <<"b">>, <<"*">>, <<QUOTE, BACKSLASH>>}

Child(q, leaf) == q \o <<SEPERATOR>> \o leaf

\* The paths describe is asked about: the keys, their children, and "b".
QueryPaths ==
    AddPaths \cup {Child(q, leaf) : q \in AddPaths, leaf \in Leaves}
             \cup {<<"b">>}

\* The maps new_with is given, after lib.rs's tests: a path with a
\* description and a pattern of its own, below a path with a pattern.
PresetDescriptions == <<"a", "/", "b">> :> <<"b">>
PresetPatterns ==
    <<"a">> :> <<"*", "a", "*">>
    @@ <<"a", "/", "b">> :> <<BACKSLASH, QUOTE, NEWLINE, "*">>

Str(x) == <<QUOTE>> \o x \o <<QUOTE>>

\* Documents given to new_from_json, each with what it is: kind says
\* whether the text is a JSON object, another JSON value or no JSON at
\* all, and fields names the top-level fields that hold a map of strings.
Documents ==
    { [text |-> <<"{">> \o Str(DESCRIPTIONS) \o <<":", " ", "{", "}", "}">>,
       kind |-> "object", fields |-> {"descriptions"}],
      [text |-> <<"{">> \o Str(PATTERNS) \o <<":", "{", "}", "}">>,
       kind |-> "object", fields |-> {"patterns"}],
      [text |-> <<"{", "}">>,
       kind |-> "object", fields |-> {}],
      [text |-> <<"{">> \o Str(DESCRIPTIONS) \o <<":", "{", "}", ",">>
                \o Str(<<"x">>) \o <<":", "[", "n", "u", "l", "l", "]", "}">>,
       kind |-> "object", fields |-> {"descriptions"}],
      [text |-> <<"{">> \o Str(DESCRIPTIONS) \o <<":">> \o Str(<<"a">>)
                \o <<",">> \o Str(PATTERNS) \o <<":", "{", "}", "}">>,
       kind |-> "object", fields |-> {"patterns"}],
      [text |-> <<"{">> \o Str(DESCRIPTIONS) \o <<":", "{", "}", ",">>
                \o Str(PATTERNS) \o <<":", "n", "u", "l", "l", "}">>,
       kind |-> "object", fields |-> {"descriptions"}],
      [text |-> <<"[", "{", "}", ",", " ", "{", "}", "]">>,
       kind |-> "array", fields |-> {}],
      [text |-> <<"[", "{", "}", "]">>,
       kind |-> "array", fields |-> {}],
      [text |-> Str(<<"a">>),
       kind |-> "string", fields |-> {}],
      [text |-> <<>>,
       kind |-> "malformed", fields |-> {}],
      [text |-> <<"{">> \o Str(DESCRIPTIONS) \o <<":", "{", "}", ",">>
                \o Str(PATTERNS) \o <<":", "{", "}">>,
       kind |-> "malformed", fields |-> {}],
      [text |-> <<"{", NEWLINE, " ">> \o Str(PATTERNS) \o <<":", " ", "{">>
                \o Str(<<"/", "a">>) \o <<":", " ">> \o Str(<<"*", "a", "*">>)
                \o <<"}", ",", NEWLINE, " ">> \o Str(DESCRIPTIONS)
                \o <<":", " ", "{", "}", ",">> \o Str(<<"x">>)
                \o <<":", "{", "}", NEWLINE, "}", NEWLINE>>,
       kind |-> "object", fields |-> {"descriptions", "patterns"}] }

Size(d) == Cardinality(DOMAIN d.descriptions) + Cardinality(DOMAIN d.patterns)

NoFile == [exists |-> FALSE, text |-> <<>>]

\* How far the binary has got: not started, running, or exited with a
\* code and a message.
NotStarted == [status |-> "none", code |-> 0, msg |-> ""]
Running == [status |-> "running", code |-> 0, msg |-> ""]

-----------------------------------------------------------------------------
(* The library: one Describer and the calls made on it. *)

Init ==
    /\ \/ describer = new
       \/ describer = new_with(PresetDescriptions, PresetPatterns)
    /\ call = [op |-> "new", arg |-> <<>>, ret |-> <<>>]
    /\ args = <<>>
    /\ parsed = None
    /\ file = NoFile
    /\ exit = NotStarted

Describe(p) ==
    /\ call' = [op |-> "describe", arg |-> <<p>>, ret |-> describe(describer, p)]
    /\ UNCHANGED <<describer, args, parsed, file, exit>>

AddDescription(p, t) ==
    /\ p \in DOMAIN describer.descriptions \/ Size(describer) < MaxEntries
    /\ describer' = add_description(describer, p, t)
    /\ call' = [op |-> "add_description", arg |-> <<p, t>>, ret |-> <<>>]
    /\ UNCHANGED <<args, parsed, file, exit>>

AddPattern(p, t) ==
    /\ p \in DOMAIN describer.patterns \/ Size(describer) < MaxEntries
    /\ describer' = add_pattern(describer, p, t)
    /\ call' = [op |-> "add_pattern", arg |-> <<p, t>>, ret |-> <<>>]
    /\ UNCHANGED <<args, parsed, file, exit>>

\* to_json cannot fail on maps of strings; the maps are written in the
\* order their iterators choose.
ToJson(pretty) ==
    /\ \E od \in Orders(DOMAIN describer.descriptions) :
       \E op \in Orders(DOMAIN describer.patterns) :
           call' = [op |-> "to_json", arg |-> <<pretty>>,
                    ret |-> to_json(describer, pretty, od, op)]
    /\ UNCHANGED <<describer, args, parsed, file, exit>>

\* new_from_json on a document, or on what to_json has just returned: the
\* Describer it yields takes the place of the one in memory; on an error
\* there is no new Describer.
Loaded(json, r) ==
    /\ describer' = IF r.ok THEN r.val ELSE describer
    /\ call' = [op |-> "new_from_json", arg |-> <<json>>,
                ret |-> [ok |-> r.ok, err |-> r.err]]
    /\ UNCHANGED <<args, parsed, file, exit>>

NewFromJson(json) == Loaded(json, new_from_json(json))

Next ==
    \/ \E p \in QueryPaths : Describe(p)
    \/ \E p \in AddPaths, t \in Texts : AddDescription(p, t)
    \/ \E p \in AddPaths, t \in Texts : AddPattern(p, t)
    \/ \E pretty \in BOOLEAN : ToJson(pretty)
    \/ \E doc \in Documents : NewFromJson(doc.text)
    \/ call.op = "to_json" /\ NewFromJson(call.ret)

Spec == Init /\ [][Next]_vars

-----------------------------------------------------------------------------
(* src/command.rs: the argument parser.  An argument is a string like any  *)
(* other; an argument list is a sequence of them.                          *)

ADD_FLAG == <<"-", "a", "d", "d">>
PATTERN_FLAG == <<"-", "p", "a", "t", "t", "e", "r", "n">>
HELP_FLAG == <<"-", "h", "e", "l", "p">>

\* The variants of InvokedTo, each with its parameters.
ShortHelp == [tag |-> "ShortHelp", params |-> <<>>]
Help == [tag |-> "Help", params |-> <<>>]
DescribePath(p) == [tag |-> "DescribePath", params |-> <<p>>]
InvokedToAddDescription(p, d) == [tag |-> "AddDescription", params |-> <<p, d>>]
InvokedToAddPattern(p, d) == [tag |-> "AddPattern", params |-> <<p, d>>]
Unknown == [tag |-> "Unknown", params |-> <<>>]

\* A parser without the arity test on the add forms: the flag decides.
invocation_pattern_by_flag(a) ==
    IF Len(a) = 1 THEN ShortHelp
    ELSE IF Len(a) = 2
    THEN IF a[2] = HELP_FLAG THEN Help ELSE DescribePath(a[2])
    ELSE IF Len(a) >= 4
    THEN IF a[2] = ADD_FLAG THEN InvokedToAddDescription(a[3], a[4])
         ELSE IF a[2] = PATTERN_FLAG THEN InvokedToAddPattern(a[3], a[4])
         ELSE Unknown
    ELSE Unknown

\* args[k] of the code is a[k + 1] here.
invocation_pattern(a) ==
    IF Len(a) = 1 THEN ShortHelp
    ELSE IF Len(a) = 2
    THEN IF a[2] = HELP_FLAG THEN Help ELSE DescribePath(a[2])
    ELSE IF Len(a) = 4
    THEN IF a[2] = ADD_FLAG THEN InvokedToAddDescription(a[3], a[4])
         ELSE IF a[2] = PATTERN_FLAG THEN InvokedToAddPattern(a[3], a[4])
         ELSE Unknown
    ELSE Unknown

\* Config::wrap: always Ok.
ConfigWrap(path, desc, help, short_help, d, p) ==
    [ok |-> TRUE,
     config |-> [path |-> path, description |-> desc, help |-> help,
                 short_help |-> short_help, add_description |-> d,
                 add_pattern |-> p]]

\* ConfigError::wrap: always Err.
ConfigErrorWrap(message) == [ok |-> FALSE, error |-> [message |-> message]]

parse_invoked(inv) ==
    IF inv.tag = "ShortHelp" THEN ConfigWrap(None, None, FALSE, TRUE, FALSE, FALSE)
    ELSE IF inv.tag = "Help" THEN ConfigWrap(None, None, TRUE, FALSE, FALSE, FALSE)
    ELSE IF inv.tag = "DescribePath"
    THEN ConfigWrap(Some(inv.params[1]), None, FALSE, FALSE, FALSE, FALSE)
    ELSE IF inv.tag = "AddDescription"
    THEN ConfigWrap(Some(inv.params[1]), Some(inv.params[2]),
                    FALSE, FALSE, TRUE, FALSE)
    ELSE IF inv.tag = "AddPattern"
    THEN ConfigWrap(Some(inv.params[1]), Some(inv.params[2]),
                    FALSE, FALSE, FALSE, TRUE)
    ELSE ConfigErrorWrap("invalid argument list")

parse(a) == parse_invoked(invocation_pattern(a))

-----------------------------------------------------------------------------
(* The parser alone: an argument list, and the two functions applied to    *)
(* it.                                                                     *)

PROGRAM == <<"d", "e", "f">>

\* What the argument lists are made of: the program's name, the three
\* flags and a path.
ArgTokens == {PROGRAM, ADD_FLAG, PATTERN_FLAG, HELP_FLAG, <<"a">>}

RECURSIVE ListsUpTo(_, _)
\* The sequences over S of length n at most.
ListsUpTo(S, n) ==
    IF n = 0 THEN {<<>>}
    ELSE ListsUpTo(S, n - 1)
         \cup {Append(l, x) : l \in {m \in ListsUpTo(S, n - 1) : Len(m) = n - 1},
                              x \in S}

ArgLists == ListsUpTo(ArgTokens, MaxArgs)

InitParse ==
    /\ args \in ArgLists
    /\ parsed = None
    /\ call = [op |-> "new", arg |-> <<>>, ret |-> <<>>]
    /\ describer = new
    /\ file = NoFile
    /\ exit = NotStarted

InvocationPattern ==
    /\ parsed' = Some(invocation_pattern(args))
    /\ call' = [op |-> "invocation_pattern", arg |-> <<args>>, ret |-> <<>>]
    /\ UNCHANGED <<describer, args, file, exit>>

Parse ==
    /\ parsed' = Some(parse(args))
    /\ call' = [op |-> "parse", arg |-> <<args>>, ret |-> <<>>]
    /\ UNCHANGED <<describer, args, file, exit>>

NextParse == InvocationPattern \/ Parse

SpecParse == InitParse /\ [][NextParse]_vars

-----------------------------------------------------------------------------
(* src/main.rs and src/errors.rs: one invocation of the binary after the   *)
(* other, on one configuration file.  main matches the parser's answer by  *)
(* the variants of InvokedTo.                                              *)
(*                                                                         *)
(* What an invocation finds around it is its environment env: whether HOME *)
(* is set, whether the configuration file can be read and its directory    *)
(* created, how fs::write ends, and the orders in which the maps are       *)
(* written.  An outcome is [code, msg, file, describer, printed]: the exit *)
(* code, the message that went with it, the file as it is left, the        *)
(* Describer held at the end, and the description printed (an Option).     *)

JSON_PRETTY == TRUE

Outcome(code, msg, f, d, printed) ==
    [code |-> code, msg |-> msg, file |-> f, describer |-> d, printed |-> printed]

\* extract_or_exit on an Err: the message is printed and the process
\* exits with code 1; the file is as it was.
ExitWith(msg, f, d) == Outcome(1, msg, f, d, None)

\* What fs::canonicalize and to_str make of the paths the user may give:
\* "a" and "a/b" exist, "b" exists under a name that is no UTF-8, every
\* other path does not exist.
canonicalize(path) ==
    IF path = <<"a">> THEN Ok(Some(<<"/", "a">>), 0)
    ELSE IF path = <<"a", "/", "b">> THEN Ok(Some(<<"/", "a", "/", "b">>), 0)
    ELSE IF path = <<"b">> THEN Ok(None, 0)
    ELSE Fail("No such file or directory")

\* absolute_path: the canonical path, or the message it exits with.
absolute_path(path) ==
    IF ~canonicalize(path).ok THEN Fail("failed to get absolute path")
    ELSE IF canonicalize(path).val = None THEN Fail("path contains invalid chars")
    ELSE Ok(canonicalize(path).val[1], 0)

\* config_file and config_dir: HOME has to be set.
config_file(env) == IF env.home THEN Ok(<<>>, 0) ELSE Fail("failed to get $HOME")

\* A get_describer that never reads the file.
get_describer_fresh(f, env) == Ok(new, 0)

get_describer_loaded(r) == IF r.ok THEN r ELSE Fail("invalid JSON config")

\* get_describer: the Describer in the file, or the message it exits with.
get_describer(f, env) ==
    IF ~config_file(env).ok THEN config_file(env)
    ELSE IF ~f.exists \/ ~env.readable THEN Fail("failed to read config")
    ELSE get_describer_loaded(new_from_json(f.text))

\* fs::write: the file is created or truncated, then the text is written.
\* It fails before the file is touched, or after, some of the text
\* written.
fs_write(f, text, env) ==
    IF env.write = "ok" THEN Ok([exists |-> TRUE, text |-> text], 0)
    ELSE IF env.write = "not opened" THEN [Fail("failed to write config to file") EXCEPT !.val = f]
    ELSE IF env.write = "truncated"
    THEN [Fail("failed to write config to file") EXCEPT
             !.val = [exists |-> TRUE, text |-> <<>>]]
    ELSE [Fail("failed to write config to file") EXCEPT
             !.val = [exists |-> TRUE, text |-> SubSeq(text, 1, Len(text) - 1)]]

\* The Describer add_description starts from.
add_description_start(f, env) ==
    IF ~config_file(env).ok THEN config_file(env)
    ELSE IF f.exists THEN get_describer(f, env)
    ELSE IF ~env.mkdir THEN Fail("failed to create config")
    ELSE Ok(new, 0)

\* The Describer with the entry added, or the message add_description
\* exits with before that, val being the Describer it holds then.
add_description_added(start, abs, description, pattern) ==
    IF ~start.ok THEN [Fail(start.err) EXCEPT !.val = new]
    ELSE IF ~abs.ok THEN [Fail(abs.err) EXCEPT !.val = start.val]
    ELSE IF pattern THEN Ok(add_pattern(start.val, abs.val, description), 0)
    ELSE Ok(add_description(start.val, abs.val, description), 0)

\* The end of add_description: the path of the file, the JSON text, the
\* write.  od and op are the orders in which the maps are written.
add_description_write(f, added, env, od, op) ==
    IF ~added.ok THEN ExitWith(added.err, f, added.val)
    ELSE IF ~config_file(env).ok THEN ExitWith(config_file(env).err, f, added.val)
    ELSE IF ~fs_write(f, to_json(added.val, JSON_PRETTY, od, op), env).ok
    THEN ExitWith("failed to write config to file",
                  fs_write(f, to_json(added.val, JSON_PRETTY, od, op), env).val,
                  added.val)
    ELSE Outcome(0, "", fs_write(f, to_json(added.val, JSON_PRETTY, od, op), env).val,
                 added.val, None)

\* main.rs's add_description up to the write.
main_add_description(f, path, description, pattern, env) ==
    add_description_added(add_description_start(f, env), absolute_path(path),
                          description, pattern)

print_description_print(f, d, described) ==
    IF described = None THEN Outcome(0, "no available description", f, d, None)
    ELSE Outcome(0, "description", f, d, described)

print_description_path(f, loaded, abs) ==
    IF ~loaded.ok THEN ExitWith(loaded.err, f, new)
    ELSE IF ~abs.ok THEN ExitWith(abs.err, f, loaded.val)
    ELSE print_description_print(f, loaded.val, describe(loaded.val, abs.val))

print_description(f, path, env) ==
    print_description_path(f, get_describer(f, env), absolute_path(path))

\* help: the short message, exit code 1.
help(f) == Outcome(1, "help", f, new, None)

\* usage: the long message, exit code 1.
usage(f) == Outcome(1, "usage", f, new, None)

\* The Unknown arm: the message goes to stderr and main returns.
unknown(f) == Outcome(0, "invalid argument list", f, new, None)

\* The descriptions the user gives on the command line.
UserTexts == {<<"*", "a", "*">>, <<BACKSLASH, QUOTE, NEWLINE, "*">>}

\* The argument lists the binary is started with: the help forms and the
\* lists that match no form; a query for each kind of path; the adds.
Invocations ==
    {<<>>, <<PROGRAM>>, <<PROGRAM, HELP_FLAG>>,
     <<PROGRAM, <<"a">>, <<"b">>>>,
     <<PROGRAM, ADD_FLAG, <<"a">>, <<"b">>, <<"c">>>>,
     <<PROGRAM, <<"-", "u", "n", "k", "o", "w", "n">>, <<"a">>, <<"b">>>>}
    \cup {<<PROGRAM, p>> : p \in {<<"a">>, <<"a", "/", "b">>, <<"b">>, <<"c">>}}
    \cup {<<PROGRAM, flag, p, t>> :
            flag \in {ADD_FLAG, PATTERN_FLAG},
            p \in {<<"a">>, <<"a", "/", "b">>}, t \in UserTexts}
    \cup {<<PROGRAM, ADD_FLAG, <<"c">>, <<"b">>>>,
          <<PROGRAM, PATTERN_FLAG, <<"b">>, <<"b">>>>}

\* An invocation's environment: everything works, or one thing does not
\* (an invocation ends at the first thing that fails).
Working == [home |-> TRUE, readable |-> TRUE, mkdir |-> TRUE, write |-> "ok"]

Environments ==
    {Working,
     [Working EXCEPT !.home = FALSE],
     [Working EXCEPT !.readable = FALSE],
     [Working EXCEPT !.mkdir = FALSE],
     [Working EXCEPT !.write = "not opened"],
     [Working EXCEPT !.write = "truncated"],
     [Working EXCEPT !.write = "partial"]}

InitMain ==
    /\ file \in {NoFile} \cup {[exists |-> TRUE, text |-> doc.text] : doc \in Documents}
    /\ args = <<>>
    /\ parsed = None
    /\ describer = new
    /\ call = [op |-> "new", arg |-> <<>>, ret |-> <<>>]
    /\ exit = NotStarted

\* The binary is started with the argument list a, no other invocation
\* running.
Exec(a) ==
    /\ exit.status # "running"
    /\ args' = a
    /\ exit' = Running
    /\ parsed' = None
    /\ describer' = new
    /\ call' = [op |-> "main", arg |-> <<>>, ret |-> <<>>]
    /\ UNCHANGED file

\* The process ends with the outcome o.
Exited(o) ==
    /\ exit.status = "running"
    /\ parsed' = Some(invocation_pattern(args))
    /\ file' = o.file
    /\ describer' = o.describer
    /\ call' = [op |-> "main", arg |-> <<>>, ret |-> o.printed]
    /\ exit' = [status |-> "exited", code |-> o.code, msg |-> o.msg]
    /\ UNCHANGED args

MainShortHelp ==
    /\ invocation_pattern(args).tag = "ShortHelp"
    /\ Exited(help(file))

MainHelp ==
    /\ invocation_pattern(args).tag = "Help"
    /\ Exited(usage(file))

MainDescribePath ==
    /\ invocation_pattern(args).tag = "DescribePath"
    /\ \E env \in Environments :
        Exited(print_description(file, invocation_pattern(args).params[1], env))

\* The maps are written in the orders their iterators choose.
MainAddWrite(env, added) ==
    \E od \in Orders(DOMAIN added.val.descriptions) :
    \E op \in Orders(DOMAIN added.val.patterns) :
        Exited(add_description_write(file, added, env, od, op))

MainAdd(pattern) ==
    \E env \in Environments :
        MainAddWrite(env,
            main_add_description(file, invocation_pattern(args).params[1],
                invocation_pattern(args).params[2], pattern, env))

MainAddDescription ==
    /\ invocation_pattern(args).tag = "AddDescription"
    /\ MainAdd(FALSE)

MainAddPattern ==
    /\ invocation_pattern(args).tag = "AddPattern"
    /\ MainAdd(TRUE)

MainUnknown ==
    /\ invocation_pattern(args).tag = "Unknown"
    /\ Exited(unknown(file))

NextMain ==
    \/ \E a \in Invocations : Exec(a)
    \/ MainShortHelp
    \/ MainHelp
    \/ MainDescribePath
    \/ MainAddDescription
    \/ MainAddPattern
    \/ MainUnknown

SpecMain == InitMain /\ [][NextMain]_vars

-----------------------------------------------------------------------------
(* What the claims speak of, said without the code's operators. *)

\* t with every placeholder replaced by leaf.
Substituted(t, leaf) ==
    Concat([i \in 1..Len(t) |-> IF t[i] = "*" THEN leaf ELSE <<t[i]>>])

HasSeparator(p) == \E i \in 1..Len(p) : p[i] = "/"

\* The part of p before its last separator, if p has one: a set of at most
\* one path.
Parents(p) ==
    {SubSeq(p, 1, i - 1) : i \in {k \in 1..Len(p) :
        p[k] = "/" /\ \A j \in (k + 1)..Len(p) : p[j] # "/"}}

\* The part of p after its last separator, p having the parent q.
LeafOf(p, q) == SubSeq(p, Len(q) + 2, Len(p))

Described(p) == describe(describer, p)

\* The last call was describe(p).
Asked(p) == call.op = "describe" /\ call.arg = <<p>>

-----------------------------------------------------------------------------
(* C1: for every path p that is a key of descriptions, describe(p) returns *)
(* exactly the value stored for p, whether or not p's parent is a key of   *)
(* patterns.                                                               *)
C1_ExactDescriptionReturned ==
    \A p \in DOMAIN describer.descriptions :
        /\ Described(p) = Some(describer.descriptions[p])
        /\ Asked(p) => call.ret = Some(describer.descriptions[p])

\* describe was asked about a path with an exact entry whose parent holds
\* a pattern that would have given another answer.
C1_Witness ==
    \E p \in DOMAIN describer.descriptions :
        /\ Asked(p)
        /\ \E q \in Parents(p) :
            /\ q \in DOMAIN describer.patterns
            /\ Substituted(describer.patterns[q], LeafOf(p, q))
                   # describer.descriptions[p]

(* C2: for every key q of patterns with template t and every leaf without *)
(* separator (the empty leaf too), if q + "/" + leaf is no key of          *)
(* descriptions then describe(q + "/" + leaf) returns t with every         *)
(* occurrence of the placeholder replaced by leaf.                         *)
C2_PatternAppliedToChild ==
    \A q \in DOMAIN describer.patterns : \A leaf \in Leaves :
        Child(q, leaf) \notin DOMAIN describer.descriptions =>
            /\ Described(Child(q, leaf))
                   = Some(Substituted(describer.patterns[q], leaf))
            /\ Asked(Child(q, leaf)) =>
                   call.ret = Some(Substituted(describer.patterns[q], leaf))

\* describe was asked about a child without exact entry of a pattern with
\* two placeholders, and answered with both replaced.
C2_Witness ==
    \E q \in DOMAIN describer.patterns :
        /\ describer.patterns[q] = <<"*", "a", "*">>
        /\ Child(q, <<"b">>) \notin DOMAIN describer.descriptions
        /\ Asked(Child(q, <<"b">>))
        /\ call.ret = Some(<<"b", "a", "b">>)

(* C3, as claimed: for every key q of patterns that has no exact entry in  *)
(* descriptions, describe(q) returns nothing.                              *)
C3_PatternKeyDescribedByNothing ==
    \A q \in DOMAIN describer.patterns :
        q \notin DOMAIN describer.descriptions => Described(q) = None

(* C3, amended: for every key q of patterns that has no exact entry in     *)
(* descriptions, describe(q) never applies the pattern stored under q: it  *)
(* returns nothing, unless q's parent is a key of patterns too, and then   *)
(* it returns the parent's template with q's last segment substituted.     *)
C3_PatternNeverSelfApplied ==
    \A q \in DOMAIN describer.patterns :
        q \notin DOMAIN describer.descriptions =>
            /\ Parents(q) \cap DOMAIN describer.patterns = {}
                   => Described(q) = None
            /\ \A r \in Parents(q) \cap DOMAIN describer.patterns :
                   Described(q)
                       = Some(Substituted(describer.patterns[r], LeafOf(q, r)))
            /\ Asked(q) => call.ret = Described(q)

\* describe was asked about a path with a separator that holds a pattern
\* with a placeholder, no exact entry, and whose parent holds no pattern:
\* it answered nothing.
C3_Witness ==
    \E q \in DOMAIN describer.patterns :
        /\ q \notin DOMAIN describer.descriptions
        /\ HasSeparator(q)
        /\ \E i \in 1..Len(describer.patterns[q]) : describer.patterns[q][i] = "*"
        /\ Asked(q)
        /\ call.ret = None

(* C4: for every path that holds no separator and is no key of             *)
(* descriptions, describe returns nothing, even when the path is a key of  *)
(* patterns; on an empty Describer describe returns nothing for every      *)
(* path.                                                                   *)
C4_NoSeparatorNoDescription ==
    /\ \A p \in QueryPaths :
        (~HasSeparator(p) /\ p \notin DOMAIN describer.descriptions) =>
            /\ Described(p) = None
            /\ Asked(p) => call.ret = None
    /\ describer = new =>
        \A p \in QueryPaths : Described(p) = None /\ (Asked(p) => call.ret = None)

\* describe was asked about a path without separator that is a key of
\* patterns and not of descriptions, the empty path holding a pattern too.
C4_Witness ==
    \E p \in DOMAIN describer.patterns :
        /\ ~HasSeparator(p)
        /\ p # <<>>
        /\ <<>> \in DOMAIN describer.patterns
        /\ p \notin DOMAIN describer.descriptions
        /\ Asked(p)
        /\ call.ret = None

(* C5: new_from_json of what to_json returns (compact or pretty) succeeds  *)
(* and yields a Describer whose describe result equals the serialized      *)
(* Describer's for every path.                                             *)
C5_RoundTrip ==
    [][(call.op = "to_json" /\ call'.op = "new_from_json"
            /\ call'.arg = <<call.ret>>) =>
          /\ call'.ret.ok
          /\ \A p \in QueryPaths :
                describe(describer', p) = describe(describer, p)]_vars

\* A Describer with a quote in a value and entries in both maps was read
\* back from its own pretty serialization.
C5_Witness ==
    /\ call.op = "new_from_json"
    /\ call.ret.ok
    /\ DOMAIN describer.descriptions # {}
    /\ DOMAIN describer.patterns # {}
    /\ \E k \in DOMAIN describer.patterns :
           \E i \in 1..Len(describer.patterns[k]) :
               describer.patterns[k][i] = QUOTE
    /\ \E od \in Orders(DOMAIN describer.descriptions) :
       \E op \in Orders(DOMAIN describer.patterns) :
           call.arg = <<to_json(describer, TRUE, od, op)>>

\* The document lacks a field, or is no JSON object at all.
Lacking(doc) ==
    \/ doc.kind # "object"
    \/ "descriptions" \notin doc.fields
    \/ "patterns" \notin doc.fields

(* C6: new_from_json returns an error whenever the document lacks the      *)
(* descriptions field or the patterns field, or is no JSON object of that  *)
(* shape.                                                                  *)
C6_LackingDocumentIsError ==
    \A doc \in Documents :
        (call.op = "new_from_json" /\ call.arg = <<doc.text>> /\ Lacking(doc))
            => ~call.ret.ok

(* C7: add_description(path, desc) sets descriptions[path] to desc and     *)
(* leaves every other descriptions entry and the whole patterns mapping    *)
(* unchanged; add_pattern does the same with the two mappings exchanged.   *)
SetsOnly(old, now, path, desc) ==
    /\ DOMAIN now = DOMAIN old \cup {path}
    /\ now[path] = desc
    /\ \A k \in DOMAIN old \ {path} : now[k] = old[k]

C7_AddFrame ==
    [][/\ call'.op = "add_description" =>
            /\ SetsOnly(describer.descriptions, describer'.descriptions,
                        call'.arg[1], call'.arg[2])
            /\ describer'.patterns = describer.patterns
       /\ call'.op = "add_pattern" =>
            /\ SetsOnly(describer.patterns, describer'.patterns,
                        call'.arg[1], call'.arg[2])
            /\ describer'.descriptions = describer.descriptions]_vars

\* An add has overwritten the description of a path that holds another
\* value as a pattern.
C7_Witness ==
    /\ call.op = "add_description"
    /\ call.arg[1] \in DOMAIN describer.patterns
    /\ describer.descriptions[call.arg[1]] = call.arg[2]
    /\ describer.patterns[call.arg[1]] # call.arg[2]
    /\ Size(describer) >= 2

-----------------------------------------------------------------------------
\* The messages extract_or_exit and absolute_path end an invocation with.
ErrorMessages ==
    {"failed to get $HOME", "failed to read config", "invalid JSON config",
     "failed to create config", "failed to write config to file",
     "failed to get absolute path", "path contains invalid chars"}

(* C8: an invocation that displays help (short or full), hits an I/O,      *)
(* environment or parse error, or has an invalid argument shape ends with  *)
(* a non-zero exit code; only a normal describe or add invocation ends     *)
(* with exit code 0.                                                       *)
C8_ExitCodes ==
    exit.status = "exited" =>
        /\ parsed[1].tag \in {"ShortHelp", "Help", "Unknown"} => exit.code # 0
        /\ exit.msg \in ErrorMessages => exit.code # 0
        /\ exit.code = 0 =>
            /\ parsed[1].tag \in {"DescribePath", "AddDescription", "AddPattern"}
            /\ exit.msg \notin ErrorMessages

(* C9: parse and invocation_pattern yield short-help for a list holding    *)
(* only the program name, help for program name + "-help", describe-path   *)
(* for program name + one other argument, add-description for program name *)
(* + "-add" + p + d, add-pattern for program name + "-pattern" + p + d,    *)
(* and for every other list the invalid result with the message "invalid   *)
(* argument list" and no path or description.                              *)
Classified(a, short, helping, describing, adding, patterning, invalid) ==
    IF Len(a) = 1 THEN short
    ELSE IF Len(a) = 2 /\ a[2] = <<"-", "h", "e", "l", "p">> THEN helping
    ELSE IF Len(a) = 2 THEN describing
    ELSE IF Len(a) = 4 /\ a[2] = <<"-", "a", "d", "d">> THEN adding
    ELSE IF Len(a) = 4 /\ a[2] = <<"-", "p", "a", "t", "t", "e", "r", "n">>
    THEN patterning
    ELSE invalid

-----------------------------------------------------------------------------
\* The file holds a document that is no valid Describer document: one that
\* lacks a field or is no JSON object of that shape.
Corrupted(f) ==
    /\ f.exists
    /\ \E doc \in Documents : Lacking(doc) /\ doc.text = f.text

(* C10: when the configuration file exists but its content is no valid     *)
(* Describer document, every add-description, add-pattern or describe      *)
(* invocation ends with an error and without writing the file.             *)
C10_CorruptedConfigNeverOverwritten ==
    [][(/\ exit.status = "running"
        /\ exit'.status = "exited"
        /\ Corrupted(file)
        /\ invocation_pattern(args).tag
               \in {"DescribePath", "AddDescription", "AddPattern"})
       => (exit'.code # 0 /\ file' = file)]_vars

\* What holds of the code: a file that new_from_json refuses ends every
\* add-description, add-pattern or describe invocation with an error and
\* is left as it is.
RefusedConfigNeverOverwritten ==
    [][(/\ exit.status = "running"
        /\ exit'.status = "exited"
        /\ file.exists
        /\ ~new_from_json(file.text).ok
        /\ invocation_pattern(args).tag
               \in {"DescribePath", "AddDescription", "AddPattern"})
       => (exit'.code # 0 /\ file' = file)]_vars

-----------------------------------------------------------------------------
(* C11: a write of the configuration file that fails during an add         *)
(* invocation leaves the file as it was: after a failed add invocation the *)
(* file holds exactly the document it held before the invocation started.  *)
C11_FailedAddLeavesFile ==
    [][(/\ exit.status = "running"
        /\ exit'.status = "exited"
        /\ invocation_pattern(args).tag \in {"AddDescription", "AddPattern"}
        /\ exit'.code # 0)
       => file' = file]_vars

-----------------------------------------------------------------------------
(* C12: no operation deletes: over add_description, add_pattern, describe  *)
(* and to_json calls on one Describer the key sets of descriptions and     *)
(* patterns never shrink, so a path describe has a value for keeps having  *)
(* one; the value changes only through add_description of that path or     *)
(* add_pattern of its parent.                                              *)
C12_NothingDeleted ==
    [][call'.op \in {"add_description", "add_pattern", "describe", "to_json"} =>
          /\ DOMAIN describer.descriptions \subseteq DOMAIN describer'.descriptions
          /\ DOMAIN describer.patterns \subseteq DOMAIN describer'.patterns
          /\ \A p \in QueryPaths :
                describe(describer, p) # None =>
                    /\ describe(describer', p) # None
                    /\ describe(describer', p) # describe(describer, p) =>
                          \/ call'.op = "add_description" /\ call'.arg[1] = p
                          \/ call'.op = "add_pattern" /\ call'.arg[1] \in Parents(p)]_vars

\* A pattern was added to a Describer that holds another entry, and a
\* child of the pattern's path that has no entry of its own is described.
C12_Witness ==
    /\ call.op = "add_pattern"
    /\ Size(describer) >= 2
    /\ \E p \in QueryPaths :
          /\ call.arg[1] \in Parents(p)
          /\ p \notin DOMAIN describer.descriptions
          /\ describe(describer, p) # None

-----------------------------------------------------------------------------
\* The Describer a process holds in memory once it has loaded the file f,
\* or started empty where there is no file.
InMemory(f) == IF f.exists THEN new_from_json(f.text).val ELSE new

\* The in-memory Describer d after the add the argument list a asks for.
AddedInMemory(d, a) ==
    IF invocation_pattern(a).tag = "AddPattern"
    THEN add_pattern(d, absolute_path(a[3]).val, a[4])
    ELSE add_description(d, absolute_path(a[3]).val, a[4])

(* C13: every successful add-description or add-pattern invocation leaves  *)
(* on disk a document that loads as the Describer of the previous file     *)
(* (empty where there was none) with that one add applied, so the file     *)
(* holds every path added so far with its latest value; a describe         *)
(* invocation leaves the file alone and prints what an in-memory Describer *)
(* that received the same adds in the same order answers.                  *)
C13_PersistedAcrossInvocations ==
    [][(exit.status = "running" /\ exit'.status = "exited" /\ exit'.code = 0) =>
          /\ invocation_pattern(args).tag \in {"AddDescription", "AddPattern"} =>
                /\ file.exists => new_from_json(file.text).ok
                /\ file'.exists
                /\ new_from_json(file'.text).ok
                /\ InMemory(file') = AddedInMemory(InMemory(file), args)
          /\ invocation_pattern(args).tag = "DescribePath" =>
                /\ file' = file
                /\ file.exists
                /\ new_from_json(file.text).ok
                /\ call'.ret = describe(InMemory(file), absolute_path(args[2]).val)]_vars

\* A successful add invocation has left a file of three entries, more than
\* any file the first invocation can find: adds of earlier invocations are
\* in it, and a text with a quote, a backslash and a newline among them.
C13_Witness ==
    /\ exit.status = "exited"
    /\ exit.code = 0
    /\ parsed[1].tag \in {"AddDescription", "AddPattern"}
    /\ file.exists
    /\ new_from_json(file.text).ok
    /\ Size(InMemory(file)) >= 3
    /\ \E k \in DOMAIN InMemory(file).descriptions :
          InMemory(file).descriptions[k] = <<BACKSLASH, QUOTE, NEWLINE, "*">>

=============================================================================
